---- MODULE Spec2Model ----
(***************************************************************************)
(* The in-memory device repository (memory.DeviceRepository), the device   *)
(* service built on it (services.DeviceServiceImpl) and the DeviceStats    *)
(* record, as a state machine of concurrent callers sharing one            *)
(* sync.RWMutex.                                                           *)
(*                                                                         *)
(* A time.Time is the integer number of minutes since the zero time; the   *)
(* zero value time.Time{} is 0 and a negative integer is an instant before *)
(* it.  A *DeviceStats is a reference: either the live record the map      *)
(* holds for an identifier, or the private copy a caller was handed.       *)
(***************************************************************************)
EXTENDS Integers, Sequences, FiniteSets, TLC

\* ------------------------------------------------------------------ bounds
NumWorkers == 2
MaxCalls == 2
MaxTime == 1
MaxUpload == 0
MaxRows == 3
IntBits == 4

\* ------------------------------------------------------- program constants
ZeroTime == 0
SnapPoison == 999

Ids == {"a", "b"}
HeaderField == "device_id"
Workers == 1..NumWorkers
Loader == 0
Procs == Workers \cup {Loader}
Times == -1..MaxTime

\* int64 arithmetic, scaled to IntBits bits: two's complement wrap-around.
MaxInt == 2^(IntBits - 1) - 1
Wrap(x) == ((x + 2^(IntBits - 1)) % 2^IntBits) - 2^(IntBits - 1)
Add64(a, b) == Wrap(a + b)
\* Go's integer division truncates toward zero.
Quot(a, b) ==
    IF (a >= 0) = (b > 0) THEN (IF a >= 0 THEN a ELSE 0 - a) \div (IF b > 0 THEN b ELSE 0 - b)
    ELSE 0 - ((IF a >= 0 THEN a ELSE 0 - a) \div (IF b > 0 THEN b ELSE 0 - b))
Uploads == (-1..MaxUpload) \cup {MaxInt}

NoRef == [kind |-> "nil"]
LiveRef(id) == [kind |-> "live", id |-> id]
CopyRef(p) == [kind |-> "copy", owner |-> p]

ErrNil == "nil"
ErrDeviceNotFound == "ErrDeviceNotFound"
ErrUploadTime == "upload_time must be >= 0"
ErrOpen == "open failed"
ErrParse == "parse failed"
ErrBoom == "boom"

VARIABLES
    devices,    \* r.devices: identifier -> the live DeviceStats record
    wlock,      \* the callers holding r.mu locked (Lock)
    rlock,      \* the callers holding r.mu read-locked (RLock)
    pc,         \* each caller's position
    op,         \* the operation each caller is in
    arg,        \* its arguments: id, sentAt, uploadMs, fn; for the loader, id is
                \* row[0] of the row its loop is at
    tmp,        \* the value loaded by a read-modify-write in progress
    last,       \* the most recent return: from what, with what
    snapRef,    \* the *DeviceStats a caller still holds from GetSnapshot
    snapVal,    \* the caller's private copy, when snapRef is a copy
    file,       \* what os.Open and ReadAll made of the file
    ldI,        \* LoadFromCSV's loop index i (rows are numbered from 1 here)
    calls,      \* number of calls started so far
    hbOk,       \* history: RecordHeartbeat calls that returned nil, per id
    hbTimes,    \* history: the timestamps of those calls, per id
    stOk,       \* history: RecordStats calls that returned nil, per id
    stSum,      \* history: the durations of those calls added up, per id
    committed,  \* history: the store as of the last release of the write lock
    seenTrue,   \* history: identifiers for which Exists has returned true
    listed,     \* history: the first fields of the rows after the first
    registered  \* history: identifiers handed to addDevice or WithDevice

vars == <<devices, wlock, rlock, pc, op, arg, tmp, last, snapRef, snapVal,
          file, ldI, calls, hbOk, hbTimes, stOk, stSum, committed, seenTrue,
          listed,
          registered>>

\* ------------------------------------------------------------- DeviceStats
\* Mutation: the fresh record is the zero value, without the id.
NewDeviceStatsZero(id) ==
    [ID |-> "", FirstHeartbeat |-> ZeroTime, LastHeartbeat |-> ZeroTime,
     HeartbeatCount |-> 0, UploadCount |-> 0, UploadSumMs |-> 0]
NewDeviceStats(id) ==
    [ID |-> id, FirstHeartbeat |-> ZeroTime, LastHeartbeat |-> ZeroTime,
     HeartbeatCount |-> 0, UploadCount |-> 0, UploadSumMs |-> 0]

Before(t, u) == t < u
After(t, u) == t > u

\* --------------------------------------------------------------- the files
\* A row read from the file: its fields.  The csv reader yields no row
\* without a field.
Rows == {<<HeaderField>>} \cup {<<id>> : id \in Ids}
\* Every first field a row can have, hence every key the map can hold.
Keys == {r[1] : r \in Rows}
FileStatus == {"missing", "malformed", "ok"}

NoFn == [write |-> FALSE, fail |-> FALSE]
NoArg == [id |-> "", sentAt |-> ZeroTime, uploadMs |-> 0, fn |-> NoFn]
NoLast == [op |-> "none", id |-> "", err |-> ErrNil, kind |-> "none", val |-> "none"]
NoSnap == NewDeviceStats("")

Init ==
    /\ devices = <<>>
    /\ wlock = {}
    /\ rlock = {}
    /\ pc = [p \in Procs |-> IF p = Loader THEN "ld_open" ELSE "idle"]
    /\ op = [p \in Procs |-> IF p = Loader THEN "LoadFromCSV" ELSE "none"]
    /\ arg = [p \in Procs |-> NoArg]
    /\ tmp = [p \in Procs |-> 0]
    /\ last = NoLast
    /\ snapRef = [p \in Procs |-> NoRef]
    /\ snapVal = [p \in Procs |-> NoSnap]
    /\ file = "unopened"
    /\ ldI = 0
    /\ calls = 0
    /\ hbOk = [id \in Keys |-> 0]
    /\ stOk = [id \in Keys |-> 0]
    /\ stSum = [id \in Keys |-> 0]
    /\ hbTimes = [id \in Keys |-> {}]
    /\ committed = <<>>
    /\ seenTrue = {}
    /\ listed = {}
    /\ registered = {}

\* ----------------------------------------------------- derived metrics
RECURSIVE Gcd(_, _)
Gcd(a, b) == IF b = 0 THEN a ELSE Gcd(b, a % b)
\* A float64 result is kept as the exact fraction num/den in lowest terms.
Frac(n, m) == [num |-> n \div Gcd(n, m), den |-> m \div Gcd(n, m)]

\* time.Duration is an int64 too, and t.Sub(u) gives the largest or smallest
\* Duration when t - u does not fit one.
MaxDuration == MaxInt
MinDuration == 0 - MaxInt - 1
Sub(t, u) ==
    IF t - u > MaxDuration THEN MaxDuration
    ELSE IF t - u < MinDuration THEN MinDuration
    ELSE t - u

\* Mutation: a device with no heartbeat reads as fully up.
UptimePercentIdleIsUp(d) ==
    IF d.HeartbeatCount = 0 THEN Frac(100, 1)
    ELSE LET window == Sub(d.LastHeartbeat, d.FirstHeartbeat)
             minutes == IF window <= 0 THEN 1 ELSE window
         IN  Frac(d.HeartbeatCount * 100, minutes)
\* Mutation: the result is capped at 100.
UptimePercentCapped(d) ==
    IF d.HeartbeatCount = 0 THEN Frac(0, 1)
    ELSE LET window == Sub(d.LastHeartbeat, d.FirstHeartbeat)
             minutes == IF window <= 0 THEN 1 ELSE window
         IN  IF d.HeartbeatCount > minutes THEN Frac(100, 1)
             ELSE Frac(d.HeartbeatCount * 100, minutes)
\* Mutation: a negative window counts by its length.
UptimePercentAbsWindow(d) ==
    IF d.HeartbeatCount = 0 THEN Frac(0, 1)
    ELSE LET window == Sub(d.LastHeartbeat, d.FirstHeartbeat)
             minutes == IF window = 0 THEN 1
                        ELSE IF window < 0 THEN 0 - window ELSE window
         IN  Frac(d.HeartbeatCount * 100, minutes)
UptimePercent(d) ==
    IF d.HeartbeatCount = 0 THEN Frac(0, 1)
    ELSE LET window == Sub(d.LastHeartbeat, d.FirstHeartbeat)
             minutes == IF window <= 0 THEN 1 ELSE window
         IN  Frac(d.HeartbeatCount * 100, minutes)

\* Mutation: a negative average is returned as it is.
AvgUploadDurationUnclamped(d) ==
    IF d.UploadCount = 0 THEN 0
    ELSE Quot(d.UploadSumMs, d.UploadCount)
\* Mutation: division by zero is avoided by counting no upload as one.
AvgUploadDurationFloorCount(d) ==
    LET count == IF d.UploadCount = 0 THEN 1 ELSE d.UploadCount
        avgNs == Quot(d.UploadSumMs, count)
    IN  IF avgNs < 0 THEN 0 ELSE avgNs
AvgUploadDuration(d) ==
    IF d.UploadCount = 0 THEN 0
    ELSE LET avgNs == Quot(d.UploadSumMs, d.UploadCount)
         IN  IF avgNs < 0 THEN 0 ELSE avgNs

\* time.Duration.String(): the digits of a fraction with trailing zeros cut.
RECURSIVE FracDigits(_, _)
FracDigits(f, width) ==
    IF f = 0 THEN ""
    ELSE LET unit == 10^(width - 1)
         IN  ToString(f \div unit) \o FracDigits(f % unit, width - 1)
Decimal(whole, f, width) ==
    IF f = 0 THEN ToString(whole) ELSE ToString(whole) \o "." \o FracDigits(f, width)
DurationString(ns) ==
    IF ns = 0 THEN "0s"
    ELSE IF ns < 1000 THEN ToString(ns) \o "ns"
    ELSE IF ns < 1000000 THEN Decimal(ns \div 1000, ns % 1000, 3) \o "us"
    ELSE IF ns < 1000000000 THEN Decimal(ns \div 1000000, ns % 1000000, 6) \o "ms"
    ELSE LET secs == ns \div 1000000000
             s == Decimal(secs % 60, ns % 1000000000, 9) \o "s"
             mins == secs \div 60
         IN  IF mins = 0 THEN s
             ELSE IF mins < 60 THEN ToString(mins) \o "m" \o s
             ELSE ToString(mins \div 60) \o "h" \o ToString(mins % 60) \o "m" \o s

\* ----------------------------------------------------------- sync.RWMutex
\* Mutation: WithDevice and addDevice take no lock.
CanLockNever == TRUE
\* Mutation: Lock waits for the readers only, as RLock waits for the writer.
CanLockAmongWriters == rlock = {}
\* r.mu.Lock() returns only when no caller holds the lock in either mode.
CanLock == wlock = {} /\ rlock = {}
\* Mutation: the readers take no lock.
CanRLockAlways == TRUE
\* r.mu.RLock() returns only when no caller holds the write lock.
CanRLock == wlock = {}

\* ------------------------------------------------------- the map r.devices
ExistsIn(devs, id) == id \in DOMAIN devs
\* addDevice and WithDevice: create the record only when the id has none.
\* Mutation: the fresh record is handed to fn but never stored in the map.
LookupOrCreateUnstored(devs, id) == devs
\* Mutation: the lookup is skipped and a fresh record always stored.
LookupOrCreateAlways(devs, id) == (id :> NewDeviceStats(id)) @@ devs
\* Mutation: storing a new record drops the others.
LookupOrCreateAlone(devs, id) ==
    IF ExistsIn(devs, id) THEN devs ELSE (id :> NewDeviceStats(id))
LookupOrCreate(devs, id) ==
    IF ExistsIn(devs, id) THEN devs ELSE (id :> NewDeviceStats(id)) @@ devs
\* Mutation: reading a missing key stores a fresh record under it.
ReadMapCreating(devs, id) == LookupOrCreate(devs, id)
\* _, ok := r.devices[id]: the map after a read of it.
ReadMap(devs, id) == devs
Deref(ref) ==
    IF ref.kind = "live" THEN devices[ref.id] ELSE snapVal[ref.owner]
\* GetSnapshot returns the address of its local copy.
\* Mutation: GetSnapshot returns the stored pointer.
SnapshotAlias(p, id) == LiveRef(id)
SnapshotRef(p, id) == CopyRef(p)

\* ------------------------------------------------- the update functions
\* Mutation: the first heartbeat to arrive stays the first.
HbFirstArrival(d, sentAt) ==
    IF d.HeartbeatCount = 0 THEN sentAt ELSE d.FirstHeartbeat
\* Mutation: FirstHeartbeat moves only to an earlier timestamp.
HbFirstEarlierOnly(d, sentAt) ==
    IF Before(sentAt, d.FirstHeartbeat) THEN sentAt ELSE d.FirstHeartbeat
HbFirst(d, sentAt) ==
    IF d.HeartbeatCount = 0 \/ Before(sentAt, d.FirstHeartbeat)
    THEN sentAt ELSE d.FirstHeartbeat
HbLast(d, sentAt) ==
    IF d.HeartbeatCount = 0 \/ After(sentAt, d.LastHeartbeat)
    THEN sentAt ELSE d.LastHeartbeat

\* ------------------------------------------------------ calls and returns
stHist == <<stOk, stSum>>
hist == <<hbOk, hbTimes, stHist, committed, seenTrue, registered>>
loaderVars == <<file, ldI, listed>>
snaps == <<snapRef, snapVal>>

\* Callers that are idle and hold no snapshot are interchangeable: of those,
\* the lowest-numbered one makes the next call.
Free(p) == pc[p] = "idle" /\ snapRef[p] = NoRef
NextFree(p) ==
    /\ p \in Workers
    /\ pc[p] = "idle"
    /\ snapRef[p] = NoRef => \A q \in Workers : Free(q) => p <= q

\* A caller starts operation o with arguments a and reaches position first;
\* it lets go of the snapshot it held.  Choosing the arguments touches no
\* shared state, so the start is one step with the first lock acquisition.
Begin(p, o, a, first) ==
    /\ NextFree(p)
    /\ calls < MaxCalls
    /\ calls' = calls + 1
    /\ op' = [op EXCEPT ![p] = o]
    /\ arg' = [arg EXCEPT ![p] = a]
    /\ pc' = [pc EXCEPT ![p] = first]
    /\ snapRef' = [snapRef EXCEPT ![p] = NoRef]
    /\ snapVal' = [snapVal EXCEPT ![p] = NoSnap]

\* The operation p is in returns (e, k, v).
Return(p, e, k, v) ==
    /\ last' = [op |-> op[p], id |-> arg[p].id, err |-> e, kind |-> k, val |-> v]
    /\ pc' = [pc EXCEPT ![p] = IF p = Loader THEN "ld_done" ELSE "idle"]
    /\ op' = [op EXCEPT ![p] = "none"]
    /\ arg' = [arg EXCEPT ![p] = NoArg]

RLock(p) ==
    /\ CanRLock
    /\ rlock' = rlock \cup {p}
    /\ wlock' = wlock
RUnlock(p) ==
    /\ rlock' = rlock \ {p}
    /\ wlock' = wlock
Lock(p) ==
    /\ CanLock
    /\ wlock' = wlock \cup {p}
    /\ rlock' = rlock
\* Mutation: the Unlock is not deferred and is skipped when fn failed.
UnlockUnlessFailed(p) ==
    /\ wlock' = IF arg[p].fn.fail THEN wlock ELSE wlock \ {p}
    /\ rlock' = rlock
    /\ committed' = devices'
Unlock(p) ==
    /\ wlock' = wlock \ {p}
    /\ rlock' = rlock
    /\ committed' = devices'

\* ------------------------------------------------ Exists (routes.go 115)
\* Called by a client of the repository, or first thing by RecordHeartbeat
\* and RecordStats.
EnterExists(p, o, a) ==
    /\ Begin(p, o, a, "ex_read")
    /\ RLock(p)
    /\ UNCHANGED <<devices, tmp, last, loaderVars, hist>>

CallExists(p) ==
    \E id \in Ids : EnterExists(p, "Exists", [NoArg EXCEPT !.id = id])

\* Mutation: the service goes on to WithDevice whatever Exists returned.
RejectNever(ok) == FALSE
\* if !s.repo.Exists(id): the service returns ErrDeviceNotFound.
RejectUnknown(ok) == ~ok

\* The read, the deferred RUnlock and the return; RecordHeartbeat and
\* RecordStats return ErrDeviceNotFound on false and go on to WithDevice on
\* true.
ExistsReturn(p) ==
    /\ pc[p] = "ex_read"
    /\ RUnlock(p)
    /\ LET ok == ExistsIn(devices, arg[p].id)
       IN  /\ seenTrue' = IF ok THEN seenTrue \cup {arg[p].id} ELSE seenTrue
           /\ IF op[p] = "Exists"
              THEN Return(p, ErrNil, "bool", ok)
              ELSE IF RejectUnknown(ok)
              THEN Return(p, ErrDeviceNotFound, "error", "none")
              ELSE /\ pc' = [pc EXCEPT ![p] = "wd_lock"]
                   /\ UNCHANGED <<op, arg, last>>
    /\ devices' = ReadMap(devices, arg[p].id)
    /\ UNCHANGED <<tmp, snaps, loaderVars, calls, hbOk, hbTimes, stHist,
                   committed, registered>>

\* ------------------------------------------------- Count (routes.go 92)
CallCount(p) ==
    /\ Begin(p, "Count", NoArg, "ct_read")
    /\ RLock(p)
    /\ UNCHANGED <<devices, tmp, last, loaderVars, hist>>

CountReturn(p) ==
    /\ pc[p] = "ct_read"
    /\ RUnlock(p)
    /\ Return(p, ErrNil, "int", Cardinality(DOMAIN devices))
    /\ UNCHANGED <<devices, tmp, snaps, loaderVars, calls, hist>>

\* ------------------------------------------ GetSnapshot (routes.go 123)
CallGetSnapshot(p) ==
    /\ \E id \in Ids : Begin(p, "GetSnapshot", [NoArg EXCEPT !.id = id], "gs_read")
    /\ RLock(p)
    /\ UNCHANGED <<devices, tmp, last, loaderVars, hist>>

\* GetStats (device_service.go 58) starts with GetSnapshot.
CallGetStats(p) ==
    /\ \E id \in Ids : Begin(p, "GetStats", [NoArg EXCEPT !.id = id], "gs_read")
    /\ RLock(p)
    /\ UNCHANGED <<devices, tmp, last, loaderVars, hist>>

\* What GetSnapshot returns to caller p from the map devs: nil and
\* ErrDeviceNotFound when id has no record, else the address of a copy of the
\* record and no error.
\* Mutation: a missing record reads as a fresh one.
GetSnapshotOrZero(devs, id, p) ==
    [err |-> ErrNil, ref |-> SnapshotRef(p, id),
     deviceCopy |-> IF ExistsIn(devs, id) THEN devs[id] ELSE NewDeviceStats(id)]
GetSnapshotResult(devs, id, p) ==
    IF ~ExistsIn(devs, id)
    THEN [err |-> ErrDeviceNotFound, ref |-> NoRef, deviceCopy |-> NoSnap]
    ELSE [err |-> ErrNil, ref |-> SnapshotRef(p, id), deviceCopy |-> devs[id]]

\* The lookup, the copy, the deferred RUnlock and the return.  The caller
\* (a client, or GetStats) now holds the reference it was handed; GetStats
\* returns the error as it is.
GetSnapshotReturn(p) ==
    /\ pc[p] = "gs_read"
    /\ RUnlock(p)
    /\ LET r == GetSnapshotResult(devices, arg[p].id, p)
       IN  /\ snapRef' = [snapRef EXCEPT ![p] = r.ref]
           /\ snapVal' = [snapVal EXCEPT ![p] = r.deviceCopy]
           /\ IF r.err # ErrNil
              THEN Return(p, r.err, "nil", r.ref)
              ELSE IF op[p] = "GetStats"
              THEN /\ pc' = [pc EXCEPT ![p] = "gst_derive"]
                   /\ UNCHANGED <<op, arg, last>>
              ELSE Return(p, ErrNil, "snapshot", r.ref)
    /\ devices' = ReadMap(devices, arg[p].id)
    /\ UNCHANGED <<tmp, loaderVars, calls, hist>>

\* What GetStats makes of the snapshot it was handed.
StatsOf(d) ==
    [Uptime |-> UptimePercent(d),
     AvgUploadTime |-> DurationString(AvgUploadDuration(d))]

\* GetStats derives the two metrics from the snapshot and returns them; the
\* snapshot is a local of GetStats.
GetStatsReturn(p) ==
    /\ pc[p] = "gst_derive"
    /\ Return(p, ErrNil, "stats", StatsOf(Deref(snapRef[p])))
    /\ snapRef' = [snapRef EXCEPT ![p] = NoRef]
    /\ snapVal' = [snapVal EXCEPT ![p] = NoSnap]
    /\ UNCHANGED <<devices, wlock, rlock, tmp, loaderVars, calls, hist>>

\* The holder of a snapshot writes one of its fields (routes.go 382), once
\* for each snapshot it is handed.
SnapFields == {"HeartbeatCount", "UploadCount", "UploadSumMs",
               "FirstHeartbeat", "LastHeartbeat"}
MutateSnapshot(p) ==
    /\ p \in Workers
    /\ pc[p] = "idle"
    /\ snapRef[p] # NoRef
    /\ \A f \in SnapFields : Deref(snapRef[p])[f] # SnapPoison
    /\ \E f \in SnapFields :
          /\ IF snapRef[p].kind = "live"
             THEN /\ devices' = [devices EXCEPT ![snapRef[p].id][f] = SnapPoison]
                  /\ snapVal' = snapVal
             ELSE /\ snapVal' = [snapVal EXCEPT ![p][f] = SnapPoison]
                  /\ devices' = devices
    /\ UNCHANGED <<wlock, rlock, pc, op, arg, tmp, last, snapRef, loaderVars,
                   calls, hist>>

\* -------------------- RecordHeartbeat, RecordStats (device_service.go)
CallRecordHeartbeat(p) ==
    \E id \in Ids, t \in Times :
        EnterExists(p, "RecordHeartbeat", [NoArg EXCEPT !.id = id, !.sentAt = t])

\* Mutation: every duration is accepted.
UploadRejectedNever(uploadMs) == FALSE
\* if uploadMs < 0 (device_service.go 41).
UploadRejected(uploadMs) == uploadMs < 0

CallRecordStats(p) ==
    \E id \in Ids, u \in Uploads :
        /\ ~UploadRejected(u)
        /\ EnterExists(p, "RecordStats", [NoArg EXCEPT !.id = id, !.uploadMs = u])

\* RecordStats returns at once on a negative duration.
RecordStatsInvalid(p) ==
    /\ NextFree(p)
    /\ calls < MaxCalls
    /\ calls' = calls + 1
    /\ \E id \in Ids, u \in Uploads :
          /\ UploadRejected(u)
          /\ last' = [op |-> "RecordStats", id |-> id, err |-> ErrUploadTime,
                      kind |-> "error", val |-> "none"]
    /\ snapRef' = [snapRef EXCEPT ![p] = NoRef]
    /\ snapVal' = [snapVal EXCEPT ![p] = NoSnap]
    /\ UNCHANGED <<devices, wlock, rlock, pc, op, arg, tmp, loaderVars, hist>>

\* ------------------------------------------- WithDevice (routes.go 102)
WithDeviceLock(p) ==
    /\ pc[p] = "wd_lock"
    /\ Lock(p)
    /\ pc' = [pc EXCEPT ![p] = "wd_lookup"]
    /\ UNCHANGED <<devices, op, arg, tmp, last, snaps, loaderVars, calls, hist>>

\* d, ok := r.devices[id]; auto-create; then fn(d) is entered.
WithDeviceLookup(p) ==
    /\ pc[p] = "wd_lookup"
    /\ devices' = LookupOrCreate(devices, arg[p].id)
    /\ pc' = [pc EXCEPT ![p] =
                 IF op[p] = "RecordHeartbeat" THEN "hb_first"
                 ELSE IF op[p] = "RecordStats" THEN "st_count_load"
                 ELSE "fn_client"]
    /\ registered' = registered \cup {arg[p].id}
    /\ UNCHANGED <<wlock, rlock, op, arg, tmp, last, snaps, loaderVars, calls,
                   hbOk, hbTimes, stHist, committed, seenTrue>>

\* One step of an update function: the record d of the caller's id becomes
\* nd, the caller's loaded value becomes t, and the caller moves to next.
FnStep(p, at, nd, t, next) ==
    /\ pc[p] = at
    /\ devices' = [devices EXCEPT ![arg[p].id] = nd]
    /\ tmp' = [tmp EXCEPT ![p] = t]
    /\ pc' = [pc EXCEPT ![p] = next]
    /\ UNCHANGED <<wlock, rlock, op, arg, last, snaps, loaderVars, calls, hist>>

Dev(p) == devices[arg[p].id]

\* RecordHeartbeat's update function (device_service.go 27-37).
HeartbeatFirst(p) ==
    FnStep(p, "hb_first",
           [Dev(p) EXCEPT !.FirstHeartbeat = HbFirst(Dev(p), arg[p].sentAt)],
           tmp[p], "hb_last")
HeartbeatLast(p) ==
    FnStep(p, "hb_last",
           [Dev(p) EXCEPT !.LastHeartbeat = HbLast(Dev(p), arg[p].sentAt)],
           tmp[p], "hb_count_load")
\* d.HeartbeatCount++ is a load, an add and a store.
HeartbeatCountLoad(p) ==
    FnStep(p, "hb_count_load", Dev(p), Dev(p).HeartbeatCount, "hb_count_store")
\* Mutation: the heartbeat count is stored in the upload counter too.
HeartbeatCountStoreBoth(p) ==
    FnStep(p, "hb_count_store",
           [Dev(p) EXCEPT !.HeartbeatCount = Add64(tmp[p], 1),
                          !.UploadCount = Add64(tmp[p], 1)], 0, "wd_unlock")
HeartbeatCountStore(p) ==
    FnStep(p, "hb_count_store",
           [Dev(p) EXCEPT !.HeartbeatCount = Add64(tmp[p], 1)], 0, "wd_unlock")

\* RecordStats's update function (device_service.go 51-55).
StatsCountLoad(p) ==
    FnStep(p, "st_count_load", Dev(p), Dev(p).UploadCount, "st_count_store")
StatsCountStore(p) ==
    FnStep(p, "st_count_store",
           [Dev(p) EXCEPT !.UploadCount = Add64(tmp[p], 1)], 0, "st_sum_load")
\* Mutation: the duration is not added to the sum.
StatsSumStoreSkipped(p) ==
    FnStep(p, "st_sum_store", Dev(p), 0, "wd_unlock")
StatsSumLoad(p) ==
    FnStep(p, "st_sum_load", Dev(p), Dev(p).UploadSumMs, "st_sum_store")
StatsSumStore(p) ==
    FnStep(p, "st_sum_store",
           [Dev(p) EXCEPT !.UploadSumMs = Add64(tmp[p], arg[p].uploadMs)], 0,
           "wd_unlock")

\* A client calls WithDevice itself (routes.go 281, 314), with an update
\* function that may write the record and may fail.
ClientFns == [write : BOOLEAN, fail : BOOLEAN]
CallWithDevice(p) ==
    /\ \E id \in Ids, fn \in ClientFns :
          Begin(p, "WithDevice", [NoArg EXCEPT !.id = id, !.fn = fn], "wd_lookup")
    /\ Lock(p)
    /\ UNCHANGED <<devices, tmp, last, loaderVars, hbOk, hbTimes, stHist,
                   seenTrue, registered>>
    /\ committed' = committed

\* The client's update function: d.HeartbeatCount++ when it writes
\* (routes.go 285); its result is kept for WithDevice to return.
ClientFn(p) ==
    /\ pc[p] = "fn_client"
    /\ devices' = [devices EXCEPT ![arg[p].id] =
                      IF arg[p].fn.write
                      THEN [@ EXCEPT !.HeartbeatCount = Add64(@, 1)] ELSE @]
    /\ pc' = [pc EXCEPT ![p] = "wd_unlock"]
    /\ UNCHANGED <<wlock, rlock, op, arg, tmp, last, snaps, loaderVars, calls, hist>>

\* Mutation: WithDevice drops what fn returned.
FnResultDropped(p) == ErrNil
\* What fn returned: the service's update functions return nil.
FnResult(p) == IF arg[p].fn.fail THEN ErrBoom ELSE ErrNil

\* Mutation: when fn failed the store is put back as the call found it.
StoreAfterFnRolledBack(p) == IF arg[p].fn.fail THEN committed ELSE devices
\* return fn(d) (routes.go 112): the store stays as fn left it, whatever fn
\* returned.
StoreAfterFn(p) == devices

\* fn returned: the deferred Unlock runs and WithDevice returns what fn
\* returned, which is also what RecordHeartbeat and RecordStats return.
WithDeviceUnlock(p) ==
    /\ pc[p] = "wd_unlock"
    /\ devices' = StoreAfterFn(p)
    /\ Unlock(p)
    /\ Return(p, FnResult(p), "error", "none")
    /\ IF op[p] = "RecordHeartbeat"
       THEN /\ hbOk' = [hbOk EXCEPT ![arg[p].id] = @ + 1]
            /\ hbTimes' = [hbTimes EXCEPT ![arg[p].id] = @ \cup {arg[p].sentAt}]
       ELSE UNCHANGED <<hbOk, hbTimes>>
    /\ IF op[p] = "RecordStats"
       THEN /\ stOk' = [stOk EXCEPT ![arg[p].id] = @ + 1]
            /\ stSum' = [stSum EXCEPT ![arg[p].id] = @ + arg[p].uploadMs]
       ELSE UNCHANGED stHist
    /\ UNCHANGED <<tmp, snaps, loaderVars, calls, seenTrue, registered>>

\* ------------------------------------------ LoadFromCSV (routes.go 51)
\* os.Open and reader.ReadAll: either fails before any row is handled.
\* Mutation: rows are read one at a time, so the loop runs on the rows that
\* precede the one that does not parse.
ReadFailedOnOpenOnly(st) == st = "missing"
ReadFailed(st) == st # "ok"

LoadOpen ==
    /\ pc[Loader] = "ld_open"
    /\ \E st \in FileStatus :
          /\ file' = st
          /\ IF ~ReadFailed(st)
             THEN /\ ldI' = 1
                  /\ pc' = [pc EXCEPT ![Loader] = "ld_loop"]
                  /\ UNCHANGED <<op, arg, last>>
             ELSE /\ ldI' = ldI
                  /\ Return(Loader, IF st = "missing" THEN ErrOpen ELSE ErrParse,
                            "error", "none")
    /\ UNCHANGED <<devices, wlock, rlock, tmp, snaps, calls, hist, listed>>

\* for i, row := range records.  The rows were fixed by ReadAll and each is
\* looked at once, in order, so the row at i is drawn when the loop gets to
\* it.  The loop ends when the rows are used up; the rows are then let go.
LoadEnd ==
    /\ pc[Loader] = "ld_loop"
    /\ ldI' = 0
    /\ listed' = {}
    /\ Return(Loader, ErrNil, "error", "none")
    /\ UNCHANGED <<devices, wlock, rlock, tmp, snaps, file, calls, hist>>

\* if i == 0 { continue }; if len(row) == 0 { continue }: row 0 is skipped
\* whatever it holds, and so is a row without fields.
SkipRowIfHeader(i, row) == (i = 1 /\ row = <<HeaderField>>) \/ Len(row) = 0
SkipRow(i, row) == i = 1 \/ Len(row) = 0

LoadSkip ==
    /\ pc[Loader] = "ld_loop"
    /\ ldI <= MaxRows
    /\ \E r \in Rows :
          /\ SkipRow(ldI, r)
          /\ arg' = [arg EXCEPT ![Loader] =
                        IF Len(r) > 0 THEN [NoArg EXCEPT !.id = r[1]] ELSE NoArg]
    /\ ldI' = ldI + 1
    /\ UNCHANGED <<devices, wlock, rlock, pc, op, tmp, last, snaps, file, listed,
                   calls, hist>>

\* Any other row: addDevice(row[0]) (routes.go 83) is called and locks.
LoadAddDevice ==
    /\ pc[Loader] = "ld_loop"
    /\ ldI <= MaxRows
    /\ \E r \in Rows :
          /\ ~SkipRow(ldI, r)
          /\ arg' = [arg EXCEPT ![Loader] = [NoArg EXCEPT !.id = r[1]]]
    /\ Lock(Loader)
    /\ pc' = [pc EXCEPT ![Loader] = "ad_add"]
    /\ UNCHANGED <<devices, op, tmp, last, snaps, loaderVars, calls, hist>>

\* addDevice creates the record if the id has none, unlocks and returns.
AddDeviceReturn ==
    /\ pc[Loader] = "ad_add"
    /\ devices' = LookupOrCreate(devices, arg[Loader].id)
    /\ Unlock(Loader)
    /\ arg' = [arg EXCEPT ![Loader] = NoArg]
    /\ ldI' = ldI + 1
    /\ listed' = listed \cup {arg[Loader].id}
    /\ registered' = registered \cup {arg[Loader].id}
    /\ pc' = [pc EXCEPT ![Loader] = "ld_loop"]
    /\ UNCHANGED <<op, tmp, last, snaps, file, calls, hbOk, hbTimes, stHist,
                   seenTrue>>

\* ---------------------------------------------------------- the system
LoadFromCSV ==
    \/ LoadOpen
    \/ LoadEnd
    \/ LoadSkip
    \/ LoadAddDevice
    \/ AddDeviceReturn

\* The steps of Exists, GetSnapshot and WithDevice once they hold the lock.
RepositorySteps(p) ==
    \/ ExistsReturn(p)
    \/ GetSnapshotReturn(p)
    \/ WithDeviceLookup(p)
    \/ WithDeviceUnlock(p)

\* main (main.go 32-48): requests are served once LoadFromCSV has returned
\* nil; on an error the process exits.
\* Mutation: the error LoadFromCSV returned is logged and main goes on.
BootedAnyway == pc[Loader] = "ld_done"
Booted == pc[Loader] = "ld_done" /\ file = "ok"

\* The device service: each request runs RecordHeartbeat, RecordStats or
\* GetStats.
Service(p) ==
    \/ Booted /\ CallRecordHeartbeat(p)
    \/ Booted /\ CallRecordStats(p)
    \/ Booted /\ RecordStatsInvalid(p)
    \/ Booted /\ CallGetStats(p)
    \/ GetStatsReturn(p)
    \/ WithDeviceLock(p)
    \/ HeartbeatFirst(p)
    \/ HeartbeatLast(p)
    \/ HeartbeatCountLoad(p)
    \/ HeartbeatCountStore(p)
    \/ StatsCountLoad(p)
    \/ StatsCountStore(p)
    \/ StatsSumLoad(p)
    \/ StatsSumStore(p)

\* A client of the repository itself, at any time.
Client(p) ==
    \/ CallExists(p)
    \/ CallCount(p)
    \/ CountReturn(p)
    \/ CallGetSnapshot(p)
    \/ CallGetStats(p)
    \/ GetStatsReturn(p)
    \/ CallWithDevice(p)
    \/ ClientFn(p)
    \/ MutateSnapshot(p)

\* The program: the bootstrap load, then the service under concurrent
\* requests.
Next ==
    \/ LoadFromCSV
    \/ \E p \in Workers : RepositorySteps(p)
    \/ \E p \in Workers : Service(p)

Spec == Init /\ [][Next]_vars

\* The repository under concurrent clients, the load among them.
NextRepo ==
    \/ LoadFromCSV
    \/ \E p \in Workers : RepositorySteps(p)
    \/ \E p \in Workers : Client(p)

SpecRepo == Init /\ [][NextRepo]_vars

\* The service and the clients of the repository together, with the
\* scheduling the code relies on.  A call that has started takes its next
\* step when it can: nothing in a locked section waits for anything but the
\* update function, which terminates.  sync.RWMutex hands the lock to a
\* Lock call that keeps waiting for it.  Starting a call is up to the caller.
Proceed(p) ==
    \/ RepositorySteps(p)
    \/ CountReturn(p)
    \/ GetStatsReturn(p)
    \/ ClientFn(p)
    \/ HeartbeatFirst(p)
    \/ HeartbeatLast(p)
    \/ HeartbeatCountLoad(p)
    \/ HeartbeatCountStore(p)
    \/ StatsCountLoad(p)
    \/ StatsCountStore(p)
    \/ StatsSumLoad(p)
    \/ StatsSumStore(p)

NextLive ==
    \/ LoadFromCSV
    \/ \E p \in Workers : RepositorySteps(p)
    \/ \E p \in Workers : Service(p)
    \/ \E p \in Workers : Client(p)

Fairness ==
    /\ WF_vars(AddDeviceReturn)
    /\ \A p \in Workers : WF_vars(Proceed(p)) /\ SF_vars(WithDeviceLock(p))

SpecLive == Init /\ [][NextLive]_vars /\ Fairness

\* ------------------------------------------- the record type on its own
\* A caller builds a DeviceStats value of its own, with any field values
\* (device.go 28-33, 44-49, 63-68), and calls the two methods on it.
Holder == NumWorkers
Counts == 0..(MaxCalls + 1)
\* A time later than every request's by more than the largest Duration.
FarTime == MaxTime + MaxDuration + 1
RecordTimes == Times \cup {FarTime}
Records ==
    [ID : {"a"}, FirstHeartbeat : RecordTimes, LastHeartbeat : RecordTimes,
     HeartbeatCount : Counts, UploadCount : Counts, UploadSumMs : Uploads]

InitDomain ==
    /\ devices = <<>>
    /\ wlock = {}
    /\ rlock = {}
    /\ pc = [p \in Procs |-> IF p = Loader THEN "ld_open" ELSE "idle"]
    /\ op = [p \in Procs |-> IF p = Loader THEN "LoadFromCSV" ELSE "none"]
    /\ arg = [p \in Procs |-> NoArg]
    /\ tmp = [p \in Procs |-> 0]
    /\ last = NoLast
    /\ snapRef = [p \in Procs |-> IF p = Holder THEN CopyRef(p) ELSE NoRef]
    /\ \E d \in Records : snapVal = [p \in Procs |-> IF p = Holder THEN d ELSE NoSnap]
    /\ file = "unopened"
    /\ ldI = 0
    /\ calls = 0
    /\ hbOk = [id \in Keys |-> 0]
    /\ stOk = [id \in Keys |-> 0]
    /\ stSum = [id \in Keys |-> 0]
    /\ hbTimes = [id \in Keys |-> {}]
    /\ committed = <<>>
    /\ seenTrue = {}
    /\ listed = {}
    /\ registered = {}

Rec == Deref(snapRef[Holder])

CallUptimePercent ==
    /\ last' = [op |-> "UptimePercent", id |-> Rec.ID, err |-> ErrNil,
                kind |-> "float64", val |-> UptimePercent(Rec)]
    /\ UNCHANGED <<devices, wlock, rlock, pc, op, arg, tmp, snaps, loaderVars,
                   calls, hist>>

CallAvgUploadDuration ==
    /\ last' = [op |-> "AvgUploadDuration", id |-> Rec.ID, err |-> ErrNil,
                kind |-> "Duration", val |-> AvgUploadDuration(Rec)]
    /\ UNCHANGED <<devices, wlock, rlock, pc, op, arg, tmp, snaps, loaderVars,
                   calls, hist>>

NextDomain ==
    \/ CallUptimePercent
    \/ CallAvgUploadDuration

SpecDomain == InitDomain /\ [][NextDomain]_vars

\* ------------------------------------------------------- the properties
Quiescent == \A p \in Workers : pc[p] = "idle"

\* The positions inside WithDevice's locked section, the update function
\* included; those inside the read-locked sections of Exists, Count and
\* GetSnapshot; the one inside addDevice's.
WithDeviceSection ==
    {"wd_lookup", "hb_first", "hb_last", "hb_count_load", "hb_count_store",
     "st_count_load", "st_count_store", "st_sum_load", "st_sum_store",
     "fn_client", "wd_unlock"}
ReadSection == {"ex_read", "ct_read", "gs_read"}
AddDeviceSection == {"ad_add"}
InWithDevice(p) == pc[p] \in WithDeviceSection
InLocked(p) == pc[p] \in WithDeviceSection \cup ReadSection \cup AddDeviceSection
NoUpdateRunning == \A p \in Procs : ~InWithDevice(p)

Min(S) == CHOOSE x \in S : \A y \in S : x <= y
Max(S) == CHOOSE x \in S : \A y \in S : x >= y

\* C1: no lost update.  Once every RecordHeartbeat call has returned, each
\* record's HeartbeatCount is its value at creation (0) plus the number of
\* calls for its identifier that returned nil, however they interleaved.
C1_NoLostUpdate ==
    Quiescent =>
        \A id \in DOMAIN devices : devices[id].HeartbeatCount = hbOk[id]
\* Both of two RecordHeartbeat calls for one identifier have returned.
C1_Witness ==
    /\ Quiescent
    /\ \E id \in DOMAIN devices : hbOk[id] >= 2 /\ devices[id].HeartbeatCount >= 2

\* C2: mutual exclusion.  While a WithDevice call is between acquiring the
\* lock and returning, no other caller is inside the locked section of
\* WithDevice, addDevice, Exists, Count or GetSnapshot.
C2_MutualExclusion ==
    \A p \in Procs : InWithDevice(p) =>
        \A q \in Procs \ {p} : ~InLocked(q)
\* A client is inside its update function while the load is between rows and
\* another client has a call to make.
C2_Witness ==
    \E p \in Workers :
        /\ pc[p] = "fn_client"
        /\ pc[Loader] = "ld_loop"
        /\ \E q \in Workers \ {p} : pc[q] = "idle"

\* C3: no torn read.  The copy GetSnapshot takes is the record as the last
\* whole update left it: the value it had when the write lock was last
\* released, never a value from inside an update function.
C3_NoTornRead ==
    [][\A p \in Workers :
          (pc[p] = "gs_read" /\ pc'[p] # "gs_read" /\ snapRef'[p] # NoRef)
              => snapVal'[p] = committed[arg[p].id]]_vars
\* GetStats holds a snapshot while a heartbeat for the same identifier is
\* half applied to the live record.
C3_Witness ==
    \E p, q \in Workers :
        /\ pc[p] = "gst_derive"
        /\ pc[q] = "hb_count_load"
        /\ arg[q].id = snapVal[p].ID
        /\ devices[arg[q].id] # committed[arg[q].id]
        /\ snapVal[p] = committed[arg[q].id]

\* C4: with no update running, FirstHeartbeat is the minimum and
\* LastHeartbeat the maximum of the timestamps of all RecordHeartbeat calls
\* that returned nil for the device, in whatever order they arrived.
C4_WindowIsMinMax ==
    NoUpdateRunning =>
        \A id \in DOMAIN devices : hbTimes[id] # {} =>
            /\ devices[id].FirstHeartbeat = Min(hbTimes[id])
            /\ devices[id].LastHeartbeat = Max(hbTimes[id])
\* A heartbeat earlier than every one recorded so far has just been applied.
C4_Witness ==
    \E p \in Workers :
        /\ pc[p] = "wd_unlock"
        /\ op[p] = "RecordHeartbeat"
        /\ hbTimes[arg[p].id] # {}
        /\ arg[p].sentAt < Min(hbTimes[arg[p].id])
        /\ devices[arg[p].id].FirstHeartbeat = arg[p].sentAt
        /\ devices[arg[p].id].LastHeartbeat = Max(hbTimes[arg[p].id])

\* C5: every record with HeartbeatCount > 0 has FirstHeartbeat <=
\* LastHeartbeat, in every state, the states inside an update included.
C5_FirstBeforeLast ==
    \A id \in DOMAIN devices :
        devices[id].HeartbeatCount > 0 =>
            devices[id].FirstHeartbeat <= devices[id].LastHeartbeat
\* A record whose window has been widened by a second heartbeat.
C5_Witness ==
    \E id \in DOMAIN devices :
        /\ devices[id].HeartbeatCount >= 2
        /\ devices[id].FirstHeartbeat < devices[id].LastHeartbeat

\* An update function is running, or about to return, on the record of id.
UpdateRunning(id) == \E p \in Procs : InWithDevice(p) /\ arg[p].id = id
\* The value a reference leads to after the step.
DerefNext(ref) ==
    IF ref.kind = "live" THEN devices'[ref.id] ELSE snapVal'[ref.owner]
\* What every caller can see of a record: the live record whenever no update
\* holds the lock on it, and every snapshot a caller holds.
Observable ==
    {devices[id] : id \in {i \in DOMAIN devices : ~UpdateRunning(i)}}
        \cup {Deref(snapRef[p]) : p \in {q \in Workers : snapRef[q] # NoRef}}

\* C6: a record seen with HeartbeatCount = 0 has FirstHeartbeat and
\* LastHeartbeat at the zero value, and a record whose first heartbeat has
\* been recorded has both at that heartbeat's timestamp, whether it is
\* before, at or after the zero time.
C6_UnsetUntilFirstHeartbeat ==
    /\ \A d \in Observable :
          d.HeartbeatCount = 0 =>
              d.FirstHeartbeat = ZeroTime /\ d.LastHeartbeat = ZeroTime
    /\ \A id \in DOMAIN devices :
          (~UpdateRunning(id) /\ devices[id].HeartbeatCount = 1) =>
              /\ hbTimes[id] = {devices[id].FirstHeartbeat}
              /\ devices[id].LastHeartbeat = devices[id].FirstHeartbeat
\* A first heartbeat later than the zero time has been recorded, next to a
\* record that has none.
C6_Witness ==
    \E id, other \in DOMAIN devices :
        /\ ~UpdateRunning(id)
        /\ devices[id].HeartbeatCount = 1
        /\ devices[id].FirstHeartbeat > ZeroTime
        /\ devices[id].LastHeartbeat = devices[id].FirstHeartbeat
        /\ devices[other].HeartbeatCount = 0

\* C7: across every step, a record that appears has HeartbeatCount = 0 and
\* UploadCount = 0, and a record that was there keeps or raises both.
C7_CountsNeverDecrease ==
    [][\A id \in DOMAIN devices' :
          IF id \in DOMAIN devices
          THEN /\ devices'[id].HeartbeatCount >= devices[id].HeartbeatCount
               /\ devices'[id].UploadCount >= devices[id].UploadCount
          ELSE /\ devices'[id].HeartbeatCount = 0
               /\ devices'[id].UploadCount = 0]_vars
\* One record has taken a heartbeat and an upload report.
C7_Witness ==
    \E id \in DOMAIN devices :
        /\ devices[id].HeartbeatCount >= 1
        /\ devices[id].UploadCount >= 1

\* C8: once Exists(id) has returned true, every Exists(id) that returns
\* later returns true and every GetSnapshot(id) that returns later returns a
\* snapshot and no ErrDeviceNotFound.
C8_NeverDeleted ==
    [][\A p \in Workers :
          /\ (pc[p] = "ex_read" /\ pc'[p] # "ex_read" /\ op[p] = "Exists"
                  /\ arg[p].id \in seenTrue)
                => (last'.op = "Exists" /\ last'.val = TRUE)
          /\ (pc[p] = "gs_read" /\ pc'[p] # "gs_read"
                  /\ arg[p].id \in seenTrue)
                => /\ snapRef'[p] # NoRef
                   /\ op[p] = "GetSnapshot" =>
                          (last'.op = "GetSnapshot" /\ last'.err = ErrNil)
                   /\ op[p] = "GetStats" => pc'[p] = "gst_derive"]_vars
\* GetSnapshot has returned a snapshot of a record Exists reported, while the
\* load has stored a second record since.
C8_Witness ==
    /\ last.op = "GetSnapshot"
    /\ last.err = ErrNil
    /\ last.id \in seenTrue
    /\ Cardinality(DOMAIN devices) >= 2

\* C9: a write through the value GetSnapshot returned leaves the store as it
\* was (so a later GetSnapshot returns what it would have returned), and no
\* step other than its holder's own write changes a snapshot that is held.
C9_SnapshotDecoupled ==
    [][/\ (\E p \in Workers : MutateSnapshot(p)) => devices' = devices
       /\ \A p \in Workers :
             (snapRef[p] # NoRef /\ snapRef'[p] = snapRef[p]
                  /\ ~MutateSnapshot(p))
                => DerefNext(snapRef[p]) = Deref(snapRef[p])]_vars
\* A held snapshot has one field overwritten and still shows no heartbeat,
\* while the live record has that field untouched and has taken a heartbeat
\* since.
C9_Witness ==
    \E p \in Workers :
        /\ snapRef[p] # NoRef
        /\ LET s == Deref(snapRef[p])
               d == devices[snapVal[p].ID]
           IN /\ s.UploadCount = SnapPoison
              /\ d.UploadCount = 0
              /\ s.HeartbeatCount = 0
              /\ d.HeartbeatCount = 1

\* C10: GetSnapshot of an identifier with no record returns
\* ErrDeviceNotFound and a nil pointer, GetStats built on it returns the same
\* error and no statistics, and the step stores no record.
C10_NotFoundNoCreate ==
    [][\A p \in Workers :
          (pc[p] = "gs_read" /\ pc'[p] # "gs_read"
               /\ ~ExistsIn(devices, arg[p].id))
            => /\ last' = [op |-> op[p], id |-> arg[p].id,
                          err |-> ErrDeviceNotFound, kind |-> "nil",
                          val |-> NoRef]
               /\ snapRef'[p] = NoRef
               /\ pc'[p] = "idle"
               /\ devices' = devices]_vars
\* GetStats has returned ErrDeviceNotFound for an identifier that the loaded
\* store, which holds other records, still does not hold.
C10_Witness ==
    /\ last.op = "GetStats"
    /\ last.err = ErrDeviceNotFound
    /\ last.val = NoRef
    /\ ~ExistsIn(devices, last.id)
    /\ devices # <<>>

\* C11: WithDevice on an identifier with no record stores, before the update
\* function is entered, a record with that ID and every other field zero,
\* leaving the other records alone; the update function then runs on that
\* record, and an Exists(id) that returns next after the WithDevice call
\* returns true.
C11_AutoCreate ==
    [][\A p \in Workers :
          /\ (pc[p] = "wd_lookup" /\ pc'[p] # "wd_lookup"
                  /\ ~ExistsIn(devices, arg[p].id))
                => /\ pc'[p] = "fn_client"
                   /\ devices' = (arg[p].id :> NewDeviceStats(arg[p].id)) @@ devices
                   /\ devices'[arg[p].id] =
                          [ID |-> arg[p].id, FirstHeartbeat |-> ZeroTime,
                           LastHeartbeat |-> ZeroTime, HeartbeatCount |-> 0,
                           UploadCount |-> 0, UploadSumMs |-> 0]
          /\ (pc[p] = "fn_client" /\ pc'[p] # "fn_client")
                => /\ ExistsIn(devices, arg[p].id)
                   /\ \A id \in DOMAIN devices \ {arg[p].id} :
                          devices'[id] = devices[id]
          /\ (pc[p] = "ex_read" /\ pc'[p] # "ex_read" /\ op[p] = "Exists"
                  /\ last.op = "WithDevice" /\ last.id = arg[p].id)
                => last'.val = TRUE]_vars
\* Exists has returned true for an identifier that the file did not hold and
\* that a WithDevice call, with an update function that wrote, created.
C11_Witness ==
    /\ last.op = "Exists"
    /\ last.val = TRUE
    /\ file \in {"missing", "malformed"}
    /\ devices = (last.id :> [NewDeviceStats(last.id) EXCEPT !.HeartbeatCount = 1])

\* C12: WithDevice returns what its update function returned: the function's
\* error when it fails, nil when it succeeds, whether or not the record was
\* there before and whether or not the function wrote it.
C12_PropagatesFnError ==
    [][\A p \in Workers :
          (pc[p] = "wd_unlock" /\ pc'[p] # "wd_unlock" /\ op[p] = "WithDevice")
            => /\ last'.op = "WithDevice"
               /\ last'.id = arg[p].id
               /\ last'.err = IF arg[p].fn.fail THEN ErrBoom ELSE ErrNil
               /\ pc'[p] = "idle"]_vars
\* WithDevice has returned the failing function's error after the function
\* wrote the record it was given.
C12_Witness ==
    /\ last.op = "WithDevice"
    /\ last.err = ErrBoom
    /\ ExistsIn(devices, last.id)
    /\ devices[last.id].HeartbeatCount = 1

ServiceWrites == {"RecordHeartbeat", "RecordStats"}

C14_NegativeRejected ==
    [][/\ (\E p \in Workers : RecordStatsInvalid(p))
            => /\ last'.op = "RecordStats"
               /\ last'.err # ErrNil
               /\ devices' = devices
               /\ wlock' = wlock /\ rlock' = rlock
               /\ pc' = pc
       /\ \A p \in Workers :
             op'[p] = "RecordStats" => arg'[p].uploadMs >= 0]_vars
\* The negative report was refused after an accepted one had been recorded,
\* which is still all the store holds of uploads.
C14_Witness ==
    /\ last.op = "RecordStats"
    /\ last.err = ErrUploadTime
    /\ ExistsIn(devices, last.id)
    /\ devices[last.id].UploadCount = 1
    /\ devices[last.id].UploadSumMs = MaxInt

\* C15: when RecordStats(id, _, d) returns nil, the record of id is the one
\* the call found on taking the lock with UploadCount one higher and the sum
\* higher by d (in int64 arithmetic), HeartbeatCount, FirstHeartbeat,
\* LastHeartbeat and ID as they were, and every other record untouched.
C15_StatsFrame ==
    [][\A p \in Workers :
          (pc[p] = "wd_unlock" /\ pc'[p] # "wd_unlock" /\ op[p] = "RecordStats")
            => /\ last'.err = ErrNil
               /\ devices' =
                     [committed EXCEPT ![arg[p].id] =
                         [@ EXCEPT !.UploadCount = Add64(@, 1),
                                   !.UploadSumMs = Add64(@, arg[p].uploadMs)]]]_vars
\* An upload report with a non-zero duration has been recorded for a device
\* whose heartbeat window was set before.
C15_Witness ==
    /\ last.op = "RecordStats"
    /\ last.err = ErrNil
    /\ devices[last.id].UploadCount = 1
    /\ devices[last.id].UploadSumMs > 0
    /\ devices[last.id].HeartbeatCount = 1
    /\ devices[last.id].FirstHeartbeat # ZeroTime

ReadOps == {"Exists", "Count", "GetSnapshot", "GetStats"}

\* C16: no step of an Exists, Count, GetSnapshot or GetStats call, from its
\* entry to its return, changes the store: the identifiers and every field
\* of every record are after the step what they were before it.
C16_ReadsDoNotMutate ==
    [][\A p \in Workers :
          (pc'[p] # pc[p] /\ (op[p] \in ReadOps \/ op'[p] \in ReadOps))
            => devices' = devices]_vars
\* GetStats has returned the statistics of a record that holds a heartbeat;
\* the record is in the store as it was.
C16_Witness ==
    /\ last.op = "GetStats"
    /\ last.err = ErrNil
    /\ last.val.Uptime = UptimePercent(devices[last.id])
    /\ devices[last.id].HeartbeatCount = 1

\* The heartbeat count of the record the methods are called on, and its
\* window in minutes: LastHeartbeat.Sub(FirstHeartbeat), which is
\* LastHeartbeat - FirstHeartbeat wherever that fits a Duration.
RecN == Rec.HeartbeatCount
RecW == Sub(Rec.LastHeartbeat, Rec.FirstHeartbeat)

\* C17: UptimePercent returns 0 for every record whose HeartbeatCount is 0,
\* whatever its two timestamps are.
C17_NoHeartbeatNoUptime ==
    (last.op = "UptimePercent" /\ RecN = 0) => last.val.num = 0
\* It has returned 0 for a record with no heartbeat whose timestamps are set
\* and apart.
C17_Witness ==
    /\ last.op = "UptimePercent"
    /\ RecN = 0
    /\ Rec.FirstHeartbeat # ZeroTime
    /\ Rec.LastHeartbeat = Rec.FirstHeartbeat + 1
    /\ last.val.num = 0

C19_WindowFloor ==
    (last.op = "UptimePercent" /\ RecN > 0 /\ RecW <= 0)
        => last.val = [num |-> RecN * 100, den |-> 1]
\* Two heartbeats with LastHeartbeat two minutes before FirstHeartbeat have
\* given 200.
C19_Witness ==
    /\ last.op = "UptimePercent"
    /\ RecN = 2
    /\ Rec.LastHeartbeat - Rec.FirstHeartbeat = 0 - 2
    /\ RecW = 0 - 2
    /\ last.val = [num |-> 200, den |-> 1]

\* C20: AvgUploadDuration returns the zero duration for every record whose
\* UploadCount is 0, whatever its upload sum is.
C20_NoUploadNoAverage ==
    (last.op = "AvgUploadDuration" /\ Rec.UploadCount = 0) => last.val = 0
\* It has returned 0 for a record with no upload and a sum that is not zero.
C20_Witness ==
    /\ last.op = "AvgUploadDuration"
    /\ Rec.UploadCount = 0
    /\ Rec.UploadSumMs > 0
    /\ last.val = 0

\* C21: for a record with UploadCount > 0, AvgUploadDuration is the sum
\* divided by the count and rounded down when that is not negative, and 0
\* when it is negative.
C21_AverageIsFloor ==
    (last.op = "AvgUploadDuration" /\ Rec.UploadCount > 0)
        => last.val = IF Rec.UploadSumMs \div Rec.UploadCount >= 0
                      THEN Rec.UploadSumMs \div Rec.UploadCount
                      ELSE 0
\* An odd sum over two uploads has given the half rounded down.
C21_Witness ==
    /\ last.op = "AvgUploadDuration"
    /\ Rec.UploadCount = 2
    /\ Rec.UploadSumMs = MaxInt
    /\ MaxInt % 2 = 1
    /\ last.val = (MaxInt - 1) \div 2

\* LoadFromCSV has registered at least one row and has not returned.
LoadUnderWay == pc[Loader] = "ld_loop" /\ ldI > 2

\* C22: the bulk load is exclusive for its entire duration: from its first
\* registration to its return no Exists, Count, GetSnapshot or WithDevice
\* call is inside its locked section, where it would read or write an
\* identifier set the load has only partly filled.
C22_LoadExclusive ==
    LoadUnderWay => \A p \in Workers : ~InLocked(p)

\* The load's loop has passed row 0, which held id.
PassedFirstRow(id) == pc[Loader] = "ld_loop" /\ ldI = 2 /\ arg[Loader].id = id

\* C23 as stated: a first row is skipped only if it is the header row, so
\* once the loop has passed a first row that holds an identifier, that
\* identifier is registered.
C23_FirstRowRegistered ==
    \A id \in Keys \ {HeaderField} : PassedFirstRow(id) => ExistsIn(devices, id)

\* C23: LoadFromCSV skips the first row, whatever it holds, and registers
\* the first field of every later row with a zero-valued record; when it
\* returns nil every identifier listed after the first row satisfies Exists,
\* has a zero-valued record, and Count is the number of distinct identifiers
\* listed after the first row.
C23_LoadRegistersRows ==
    [][/\ (ldI = 1 /\ ldI' = 2) => devices' = devices
       /\ (pc[Loader] = "ad_add" /\ pc'[Loader] = "ld_loop")
             => /\ ExistsIn(devices', arg[Loader].id)
                /\ ~ExistsIn(devices, arg[Loader].id)
                      => devices'[arg[Loader].id] = NewDeviceStats(arg[Loader].id)
       /\ (pc[Loader] = "ld_loop" /\ pc'[Loader] = "ld_done")
             => /\ last'.err = ErrNil
                /\ \A id \in Keys : ExistsIn(devices', id) <=> id \in listed
                /\ \A id \in listed : devices'[id] = NewDeviceStats(id)
                /\ Cardinality(DOMAIN devices') = Cardinality(listed)]_vars
\* A load has returned nil on a file that listed both identifiers after its
\* first row, one of them twice, and nothing has been served yet.
C23_Witness ==
    /\ Booted
    /\ last.op = "LoadFromCSV"
    /\ last.err = ErrNil
    /\ DOMAIN devices = Ids
    /\ calls = 0

\* p's call registers its identifier in this step: addDevice or WithDevice
\* looks it up and creates the record it lacks.
Registers(p) == pc[p] \in {"ad_add", "wd_lookup"} /\ pc'[p] # pc[p]

\* C24: the store holds one record for each identifier registered so far
\* and Count returns their number; registering an identifier that has a
\* record (a duplicate row, a WithDevice or a repeated heartbeat on it) adds
\* no record and leaves every field of the existing record as it was.
C24_CountIsDistinct ==
    [][/\ DOMAIN devices' = registered'
       /\ \A p \in Procs :
             Registers(p)
                 => /\ registered' = registered \cup {arg[p].id}
                    /\ \A id \in DOMAIN devices : devices'[id] = devices[id]
       /\ \A p \in Workers :
             (op[p] = "Count" /\ pc'[p] = "idle")
                 => /\ last'.op = "Count"
                    /\ last'.val = Cardinality(registered)]_vars
\* The load has registered one identifier in two rows, a WithDevice call
\* has counted a heartbeat on it, and a second WithDevice call on it has
\* looked the record up and found the count kept.
C24_Witness ==
    /\ ldI = MaxRows + 1
    /\ \E p \in Workers :
          /\ pc[p] = "fn_client"
          /\ listed = {arg[p].id}
          /\ registered = {arg[p].id}
          /\ devices[arg[p].id].HeartbeatCount = 1

\* LoadFromCSV has returned an error to main.
LoadFailed == pc[Loader] = "ld_done" /\ last.op = "LoadFromCSV" /\ last.err # ErrNil

\* C25: the first request is handled only after LoadFromCSV has returned
\* nil, and once LoadFromCSV has returned an error, for a missing or for a
\* malformed file, the process takes no further step: no request is ever
\* handled.
C25_ServesOnlyLoaded ==
    [][/\ (calls = 0 /\ calls' > 0)
             => (pc[Loader] = "ld_done" /\ last.op = "LoadFromCSV" /\ last.err = ErrNil)
       /\ (\E p \in Workers : pc'[p] # "idle") => calls' > 0
       /\ ~LoadFailed]_vars
\* The load has failed on a malformed file and nothing has been served.
C25_Witness ==
    /\ LoadFailed
    /\ last.err = ErrParse
    /\ calls = 0
    /\ devices = <<>>
    /\ \A p \in Workers : pc[p] = "idle"

\* C26: when the file cannot be opened or cannot be parsed, LoadFromCSV
\* returns in one step with a non-nil error (the opening or the parsing
\* error), without calling addDevice: the store and the set of registered
\* identifiers are what they were before the call.
C26_FailedLoadRegistersNothing ==
    [][/\ (pc[Loader] = "ld_open" /\ file' \in {"missing", "malformed"})
             => /\ pc'[Loader] = "ld_done"
                /\ last' = [op |-> "LoadFromCSV", id |-> "",
                            err |-> IF file' = "missing" THEN ErrOpen ELSE ErrParse,
                            kind |-> "error", val |-> "none"]
                /\ last'.err # ErrNil
                /\ devices' = devices
                /\ registered' = registered
       /\ file \in {"missing", "malformed"} => ~Registers(Loader)]_vars
\* The load has failed on a file that does not parse, next to a record a
\* WithDevice call created before; the record is all the store holds.
C26_Witness ==
    /\ LoadFailed
    /\ file = "malformed"
    /\ last.err = ErrParse
    /\ Cardinality(DOMAIN devices) = 1
    /\ registered = DOMAIN devices
    /\ listed = {}

\* ------------------------------------------ the handlers (handlers.go 90)
StatusOK == 200
StatusNoContent == 204
StatusBadRequest == 400
StatusNotFound == 404
StatusInternalServerError == 500

\* What PostHeartbeat, PostStats and GetStats answer once the service call o
\* has returned e: errors.Is(err, ErrDeviceNotFound) is the only error they
\* tell apart.
Respond(o, e) ==
    IF e = ErrNil
    THEN IF o = "GetStats" THEN StatusOK ELSE StatusNoContent
    ELSE IF e = ErrDeviceNotFound THEN StatusNotFound
    ELSE StatusInternalServerError

ServiceOps == {"RecordHeartbeat", "RecordStats", "GetStats"}

HoldsLock(p) == p \in wlock \cup rlock

\* C28: every call that has started returns, and every caller that holds
\* the lock lets go of it, so that a call about to start finds the lock
\* free again; this also after an update function has returned an error.
C28_EveryCallReturns ==
    /\ \A p \in Workers : (pc[p] # "idle") ~> (pc[p] = "idle")
    /\ \A p \in Procs : HoldsLock(p) ~> ~HoldsLock(p)
\* WithDevice has returned its update function's error, and RecordHeartbeat,
\* which waited for the lock meanwhile, is inside its locked section.
C28_Witness ==
    /\ last.op = "WithDevice"
    /\ last.err = ErrBoom
    /\ \E p \in Workers :
          /\ op[p] = "RecordHeartbeat"
          /\ InWithDevice(p)
          /\ p \in wlock

\* The update function of call o with arguments a, run whole on record d:
\* RecordHeartbeat's (device_service.go 27-37), RecordStats'
\* (device_service.go 51-55) or a client's (routes.go 285).
ApplyWhole(o, a, d) ==
    IF o = "RecordHeartbeat"
    THEN LET d1 == [d EXCEPT !.FirstHeartbeat = HbFirst(d, a.sentAt)]
             d2 == [d1 EXCEPT !.LastHeartbeat = HbLast(d1, a.sentAt)]
         IN  [d2 EXCEPT !.HeartbeatCount = Add64(@, 1)]
    ELSE IF o = "RecordStats"
    THEN [d EXCEPT !.UploadCount = Add64(@, 1),
                   !.UploadSumMs = Add64(@, a.uploadMs)]
    ELSE IF a.fn.write THEN [d EXCEPT !.HeartbeatCount = Add64(@, 1)]
    ELSE d

\* C29: when a WithDevice call returns, the store is the store as the call
\* before it in lock order left it, with this call's update function applied
\* whole to the record of its identifier (a fresh record if it had none) and
\* every other record as it was; the store as a call leaves it changes at no
\* other step.  So the records are what the update functions give when run
\* one at a time in the order the calls acquired the lock.
C29_Linearizable ==
    [][/\ \A p \in Workers :
             (pc[p] = "wd_unlock" /\ pc'[p] # "wd_unlock")
               => /\ devices' =
                        [id \in DOMAIN committed \cup {arg[p].id} |->
                            IF id = arg[p].id
                            THEN ApplyWhole(op[p], arg[p],
                                            IF ExistsIn(committed, id)
                                            THEN committed[id]
                                            ELSE NewDeviceStats(id))
                            ELSE committed[id]]
                  /\ committed' = devices'
       /\ (\A p \in Procs : ~HoldsLock(p) \/ p \in rlock) => committed' = committed]_vars
\* Two heartbeats with different timestamps for one identifier have both
\* returned and the record holds both.
C29_Witness ==
    /\ Quiescent
    /\ \E id \in Ids :
          /\ ExistsIn(devices, id)
          /\ hbTimes[id] = {-1, 1}
          /\ devices[id].HeartbeatCount = 2
          /\ devices[id].FirstHeartbeat = -1
          /\ devices[id].LastHeartbeat = 1
          /\ committed = devices

\* C30: while Exists, Count or GetSnapshot is inside its read-locked
\* section, every caller inside a locked section is a reader too: no
\* WithDevice and no addDevice call is inside its own, and the readers hold
\* the lock shared.
C30_ReadersShareLock ==
    \A p \in Procs :
        pc[p] \in ReadSection
            => /\ p \in rlock
               /\ wlock = {}
               /\ \A q \in Procs \ {p} :
                      pc[q] \notin WithDeviceSection \cup AddDeviceSection
\* Count and GetSnapshot are inside their read-locked sections together.
C30_Witness ==
    \E p, q \in Workers :
        /\ p # q
        /\ pc[p] = "ct_read"
        /\ pc[q] = "gs_read"
        /\ {p, q} \subseteq rlock

\* C31: once every service call has returned, each record's HeartbeatCount
\* is the number of RecordHeartbeat calls for its identifier that returned
\* nil, its UploadCount the number of RecordStats calls that returned nil,
\* and its UploadSumMs the sum of the durations those calls reported.
C31_CountsAndSums ==
    Quiescent =>
        \A id \in DOMAIN devices :
            /\ devices[id].HeartbeatCount = hbOk[id]
            /\ devices[id].UploadCount = stOk[id]
            /\ devices[id].UploadSumMs = stSum[id]

\* C32: the service hands the store no negative duration, so no record's
\* UploadSumMs is ever negative, and whenever no update is running on a
\* record with uploads its AvgUploadDuration is the sum of the reported
\* durations divided by their number, rounded down.
C32_SumNeverNegative ==
    \A id \in DOMAIN devices :
        /\ devices[id].UploadSumMs >= 0
        /\ (~UpdateRunning(id) /\ stOk[id] > 0)
              => AvgUploadDuration(devices[id]) = stSum[id] \div stOk[id]

\* C33: every record's ID is the key the store holds it under, and no step
\* of the load, of the service or of a client's call changes the ID of a
\* record the store holds.
C33_IdIsKey ==
    [][/\ \A id \in DOMAIN devices' : devices'[id].ID = id
       /\ \A id \in DOMAIN devices :
             ExistsIn(devices', id) /\ devices'[id].ID = devices[id].ID]_vars
\* RecordHeartbeat has returned nil for a record of the load, which holds
\* the heartbeat under its own id, next to a second record.
C33_Witness ==
    /\ last.op = "RecordHeartbeat"
    /\ last.err = ErrNil
    /\ last.id \in listed \cup registered
    /\ devices[last.id].ID = last.id
    /\ devices[last.id].HeartbeatCount = 1
    /\ Cardinality(DOMAIN devices) >= 2

PairLen == 2
MorePairs == 5
HexDigits ==
    {"0", "1", "2", "3", "4", "5", "6", "7", "8", "9",
     "a", "b", "c", "d", "e", "f", "A", "B", "C", "D", "E", "F"}
\* Mutation: the pattern is not anchored at the end.
IsIdPrefix(chars) ==
    /\ Len(chars) >= PairLen + MorePairs * (PairLen + 1)
    /\ \A i \in 1..(PairLen + MorePairs * (PairLen + 1)) :
          IF i % (PairLen + 1) = 0 THEN chars[i] = "-" ELSE chars[i] \in HexDigits
IsId(chars) ==
    /\ Len(chars) = PairLen + MorePairs * (PairLen + 1)
    /\ \A i \in 1..Len(chars) :
          IF i % (PairLen + 1) = 0 THEN chars[i] = "-" ELSE chars[i] \in HexDigits

\* The characters of the pairs ps with sep between them.
RECURSIVE Joined(_, _)
Joined(ps, sep) ==
    IF Len(ps) = 0 THEN <<>>
    ELSE IF Len(ps) = 1 THEN ps[1]
    ELSE ps[1] \o <<sep>> \o Joined(Tail(ps), sep)

\* The device_id values of requests that IsId turns down: the one of the
\* handler tests, five pairs, seven pairs, a digit that is not hexadecimal,
\* and colons between the pairs.
BadIds ==
    {"bad-id", "60-6b-44-84-dc", "60-6b-44-84-dc-64-00", "60-6b-44-84-dc-6g",
     "60:6b:44:84:dc:64"}
RequestIds == Ids \cup BadIds
\* The characters of a device_id.  The identifiers a and b of the model are
\* short for 60-6b-44-84-dc-64 and AB-cd-EF-01-23-45.
Chars(id) ==
    LET p60 == <<"6", "0">>
        p6b == <<"6", "b">>
        p44 == <<"4", "4">>
        p84 == <<"8", "4">>
        pdc == <<"d", "c">>
        p64 == <<"6", "4">>
        five == <<p60, p6b, p44, p84, pdc>>
    IN  CASE id = "a" -> Joined(five \o <<p64>>, "-")
          [] id = "b" -> Joined(<<<<"A", "B">>, <<"c", "d">>, <<"E", "F">>,
                                  <<"0", "1">>, <<"2", "3">>, <<"4", "5">>>>, "-")
          [] id = "bad-id" -> <<"b", "a", "d", "-", "i", "d">>
          [] id = "60-6b-44-84-dc" -> Joined(five, "-")
          [] id = "60-6b-44-84-dc-64-00" -> Joined(five \o <<p64, <<"0", "0">>>>, "-")
          [] id = "60-6b-44-84-dc-6g" -> Joined(five \o <<<<"6", "g">>>>, "-")
          [] id = "60:6b:44:84:dc:64" -> Joined(five \o <<p64>>, ":")

\* The device_id values that pass utils.IsId.
WellFormed == {id \in RequestIds : IsId(Chars(id))}

\* The bodies of requests, and ShouldBindJSON on them with the binding tags
\* of dto.go: sent_at required; upload_time required, gte=0.
HeartbeatBodies ==
    {[json |-> FALSE, sentAt |-> ZeroTime]} \cup [json : {TRUE}, sentAt : Times]
StatsBodies ==
    {[json |-> FALSE, uploadTime |-> 0]} \cup [json : {TRUE}, uploadTime : Uploads]
BindHeartbeat(b) == b.json /\ b.sentAt # ZeroTime
BindStats(b) == b.json /\ b.uploadTime # 0 /\ b.uploadTime >= 0

MsgInvalidId == "Invalid device ID"
MsgInvalidPayload == "invalid payload"

\* The handler answers 400 with msg and returns; the service is not called.
BadRequest(p, h, id, msg) ==
    /\ NextFree(p)
    /\ calls < MaxCalls
    /\ calls' = calls + 1
    /\ last' = [op |-> h, id |-> id, err |-> ErrNil, kind |-> "status",
                val |-> [status |-> StatusBadRequest, msg |-> msg]]
    /\ snapRef' = [snapRef EXCEPT ![p] = NoRef]
    /\ snapVal' = [snapVal EXCEPT ![p] = NoSnap]
    /\ UNCHANGED <<devices, wlock, rlock, pc, op, arg, tmp, loaderVars, hist>>

\* Handler.PostHeartbeat (handlers.go 90), up to its call of the service:
\* the id is checked, then the body is bound, then RecordHeartbeat is called.
PostHeartbeat(p) ==
    \E id \in RequestIds :
        IF id \notin WellFormed
        THEN BadRequest(p, "PostHeartbeat", id, MsgInvalidId)
        ELSE \E b \in HeartbeatBodies :
                IF ~BindHeartbeat(b)
                THEN BadRequest(p, "PostHeartbeat", id, MsgInvalidPayload)
                ELSE EnterExists(p, "RecordHeartbeat",
                                 [NoArg EXCEPT !.id = id, !.sentAt = b.sentAt])

\* Handler.PostStats (handlers.go 130).  RecordStats gets past its own check
\* of the duration, which the binding has made already.
PostStats(p) ==
    \E id \in RequestIds :
        IF id \notin WellFormed
        THEN BadRequest(p, "PostStats", id, MsgInvalidId)
        ELSE \E b \in StatsBodies :
                IF ~BindStats(b)
                THEN BadRequest(p, "PostStats", id, MsgInvalidPayload)
                ELSE /\ ~UploadRejected(b.uploadTime)
                     /\ EnterExists(p, "RecordStats",
                                    [NoArg EXCEPT !.id = id,
                                                  !.uploadMs = b.uploadTime])

\* Handler.GetStats (handlers.go 169): no body to bind.
GetStats(p) ==
    \E id \in RequestIds :
        IF id \notin WellFormed
        THEN BadRequest(p, "GetStats", id, MsgInvalidId)
        ELSE /\ Begin(p, "GetStats", [NoArg EXCEPT !.id = id], "gs_read")
             /\ RLock(p)
             /\ UNCHANGED <<devices, tmp, last, loaderVars, hist>>

Handlers == {"PostHeartbeat", "PostStats", "GetStats"}

\* A request is routed to its handler; the service call it makes runs on.
Handler(p) ==
    \/ Booted /\ PostHeartbeat(p)
    \/ Booted /\ PostStats(p)
    \/ Booted /\ GetStats(p)
    \/ GetStatsReturn(p)
    \/ WithDeviceLock(p)
    \/ HeartbeatFirst(p)
    \/ HeartbeatLast(p)
    \/ HeartbeatCountLoad(p)
    \/ HeartbeatCountStore(p)
    \/ StatsCountLoad(p)
    \/ StatsCountStore(p)
    \/ StatsSumLoad(p)
    \/ StatsSumStore(p)

\* The program as it serves: the load, then requests through the handlers.
NextHttp ==
    \/ LoadFromCSV
    \/ \E p \in Workers : RepositorySteps(p)
    \/ \E p \in Workers : Handler(p)

SpecHttp == Init /\ [][NextHttp]_vars

C36_NoRollback ==
    [][\A p \in Workers :
          (pc[p] = "wd_unlock" /\ pc'[p] # "wd_unlock" /\ arg[p].fn.fail)
            => /\ last'.op = "WithDevice"
               /\ last'.err = ErrBoom
               /\ ExistsIn(devices', arg[p].id)
               /\ DOMAIN devices' = DOMAIN committed \cup {arg[p].id}
               /\ devices'[arg[p].id] =
                     ApplyWhole("WithDevice", arg[p],
                                IF ExistsIn(committed, arg[p].id)
                                THEN committed[arg[p].id]
                                ELSE NewDeviceStats(arg[p].id))]_vars
\* The first call of all, a WithDevice whose function counted a heartbeat
\* and failed, has returned the error; the record it created is there with
\* the count.
C36_Witness ==
    /\ last.op = "WithDevice"
    /\ last.err = ErrBoom
    /\ calls = 1
    /\ pc[Loader] = "ld_open"
    /\ DOMAIN devices = {last.id}
    /\ devices[last.id].HeartbeatCount = 1

\* The fields RecordHeartbeat's update function assigns.
HeartbeatFields == {"FirstHeartbeat", "LastHeartbeat", "HeartbeatCount"}
Fields == DOMAIN NewDeviceStats("a")

\* C37: no step of a RecordHeartbeat(id) call changes a field of id's record
\* other than FirstHeartbeat, LastHeartbeat and HeartbeatCount, or any field
\* of another device's record, and on its return with nil id's UploadCount
\* and upload sum and every other record are what they were when the call
\* took the lock; no step of a RecordStats(id) call changes a field of
\* another device's record, and neither has its return.
C37_UpdatesIsolated ==
    [][\A p \in Workers :
          (pc'[p] # pc[p] /\ op[p] \in ServiceWrites /\ ExistsIn(devices, arg[p].id))
            => /\ \A o \in DOMAIN devices \ {arg[p].id} :
                     ExistsIn(devices', o) /\ devices'[o] = devices[o]
               /\ op[p] = "RecordHeartbeat"
                    => \A f \in Fields \ HeartbeatFields :
                          devices'[arg[p].id][f] = devices[arg[p].id][f]
               /\ (pc[p] = "wd_unlock" /\ last'.err = ErrNil)
                    => /\ \A o \in DOMAIN committed \ {arg[p].id} :
                             devices'[o] = committed[o]
                       /\ op[p] = "RecordHeartbeat"
                            => \A f \in Fields \ HeartbeatFields :
                                  devices'[arg[p].id][f] = committed[arg[p].id][f]]_vars
\* A heartbeat has been recorded for a device that had an upload report
\* already, next to another registered device: the upload fields of the
\* first and the fresh record of the second stand.
C37_Witness ==
    /\ last.op = "RecordHeartbeat"
    /\ last.err = ErrNil
    /\ devices[last.id].HeartbeatCount = 1
    /\ devices[last.id].UploadCount = 1
    /\ devices[last.id].UploadSumMs = MaxInt
    /\ \E o \in DOMAIN devices \ {last.id} : devices[o] = NewDeviceStats(o)

\* The updates the service accepts for identifier id: a heartbeat with any
\* timestamp, an upload report with any duration that passes the check
\* (device_service.go 22, 40-43).
Accepted(id) ==
    {<<"RecordHeartbeat", [NoArg EXCEPT !.id = id, !.sentAt = t]>> : t \in Times}
    \cup {<<"RecordStats", [NoArg EXCEPT !.id = id, !.uploadMs = u]>> :
             u \in {v \in Uploads : ~UploadRejected(v)}}
Then(d, u) == ApplyWhole(u[1], u[2], d)

\* C38: every step that leaves a record behind with no update running on
\* it (the load registering it, an update returning) leaves one on which any
\* two accepted updates give the same record in either order, so (updates
\* being applied whole, one at a time, in lock order) every order of a
\* finite set of them gives the same final record; and that record is a
\* function of the accepted updates alone: HeartbeatCount and UploadCount
\* their numbers, FirstHeartbeat and LastHeartbeat the earliest and latest
\* timestamp, the upload sum the int64 sum of the durations.
C38_OrderIndependent ==
    [][\A id \in DOMAIN devices' :
          (~UpdateRunning(id)' /\ (~ExistsIn(devices, id) \/ UpdateRunning(id)))
            => /\ \A u1, u2 \in Accepted(id) :
                     Then(Then(devices'[id], u1), u2)
                        = Then(Then(devices'[id], u2), u1)
               /\ devices'[id].HeartbeatCount = hbOk'[id]
               /\ hbOk'[id] > 0
                    => /\ devices'[id].FirstHeartbeat = Min(hbTimes'[id])
                       /\ devices'[id].LastHeartbeat = Max(hbTimes'[id])
               /\ devices'[id].UploadCount = stOk'[id]
               /\ devices'[id].UploadSumMs = Wrap(stSum'[id])]_vars
\* The heartbeat with the later timestamp took the lock first; the one with
\* the earlier timestamp has now run, and the record is the one the other
\* order gives.
C38_Witness ==
    \E p \in Workers :
        /\ pc[p] = "wd_unlock"
        /\ op[p] = "RecordHeartbeat"
        /\ arg[p].sentAt = -1
        /\ committed[arg[p].id].HeartbeatCount = 1
        /\ committed[arg[p].id].FirstHeartbeat = 1
        /\ devices[arg[p].id] =
              Then(Then(NewDeviceStats(arg[p].id),
                        <<"RecordHeartbeat", arg[p]>>),
                   <<"RecordHeartbeat", [arg[p] EXCEPT !.sentAt = 1]>>)

\* C39: a RecordStats call with a negative duration returns the
\* invalid-duration error, never ErrDeviceNotFound, in a single step in which
\* no caller enters or leaves Exists and no lock is touched, whether or not
\* its identifier has a record; and every RecordStats call that is inside
\* Exists, or returns ErrDeviceNotFound from it, carries a duration that is
\* not negative.
C39_DurationBeforeExistence ==
    [][/\ (\E p \in Workers : RecordStatsInvalid(p))
            => /\ last'.op = "RecordStats"
               /\ last'.err = ErrUploadTime
               /\ last'.err # ErrDeviceNotFound
               /\ <<pc', op', arg', rlock', wlock', seenTrue'>>
                     = <<pc, op, arg, rlock, wlock, seenTrue>>
       /\ \A p \in Workers :
             /\ (op'[p] = "RecordStats" /\ pc'[p] = "ex_read")
                   => arg'[p].uploadMs >= 0
             /\ (op[p] = "RecordStats" /\ pc[p] = "ex_read" /\ pc'[p] = "idle")
                   => /\ arg[p].uploadMs >= 0
                      /\ last'.err = ErrDeviceNotFound
                      /\ ~ExistsIn(devices, arg[p].id)]_vars
\* A negative duration was reported for an identifier that is not in the
\* loaded store, and the call returned the invalid-duration error.
C39_Witness ==
    /\ Booted
    /\ devices # <<>>
    /\ last.op = "RecordStats"
    /\ last.err = ErrUploadTime
    /\ ~ExistsIn(devices, last.id)

====
